---------------------------- MODULE Spec2Model ----------------------------
(***************************************************************************)
(* Model of the MCP book-search server (src/book_server.rs).               *)
(*                                                                         *)
(* Text is modelled as a sequence of Unicode scalar values, so that        *)
(* to_lowercase, contains and format! are computed character by character. *)
(* Option<T> is modelled as a sequence of length 0 (None) or 1 (Some).     *)
(* usize is modelled as four 16-bit limbs, most significant first, so that *)
(* the cast `as usize` keeps its 64-bit width.                             *)
(***************************************************************************)
EXTENDS Integers, Sequences, FiniteSets, TLC

VARIABLES
    once,           \* FAKE_BOOKS: state of the OnceLock's Once
    slot,           \* FAKE_BOOKS: the OnceLock's value cell (Option<Vec<Book>>)
    initCount,      \* how many times the get_or_init closure has run
    session,        \* the serve loop of main: "serving" or "closed"
    request,        \* the request last dispatched
    response,       \* the answer to it
    results,        \* Option: the `results` vector of the last search
    afterMalformed, \* a tool call that failed to decode was answered earlier
    afterSearch,    \* a search was answered earlier
    pc,             \* per caller: position inside get_fake_books
    built,          \* per caller: the Vec the closure has built (Option)
    view            \* per caller: the slice get_fake_books returned (Option)

vars == <<once, slot, initCount, session, request, response, results,
          afterMalformed, afterSearch, pc, built, view>>

None == <<>>
Some(x) == <<x>>

-----------------------------------------------------------------------------
(* The catalog literal and the string literals of the source.              *)

\* Book 1: book_server.rs:45-51, as Unicode scalar values
Book1 ==
    [title |-> <<37327, 23376, 12467, 12531, 12500, 12517, 12540, 12479, 12391, 26009, 29702, 12377, 12427, 26041, 27861>>,
     author |-> <<68, 114, 46, 32, 12473, 12540, 12497, 12540, 12469, 12452, 12456, 12531, 12486, 12451, 12473, 12488>>,
     year |-> 2157,
     description |-> <<37327, 23376, 12467, 12531, 12500, 12517, 12540, 12479, 12434, 20351, 29992, 12375, 12390, 12289, 20998, 23376, 12524, 12505, 12523, 12391, 26009, 29702, 12434, 20877, 27083, 31689, 12377, 12427, 38761, 26032, 30340, 12394, 26041, 27861, 12434, 35299, 35500>>,
     isbn |-> <<57, 55, 56, 45, 48, 45, 49, 50, 51, 52, 53, 54, 45, 52, 55, 45, 49, 49>>]

\* Book 2: book_server.rs:52-58, as Unicode scalar values
Book2 ==
    [title |-> <<12479, 12452, 12512, 12488, 12521, 12505, 12523, 12392, 31246, 37329, 23550, 31574>>,
     author |-> <<26410, 26469, 12398, 20250, 35336, 22763>>,
     year |-> 3000,
     description |-> <<12479, 12452, 12512, 12488, 12521, 12505, 12523, 12434, 27963, 29992, 12375, 12383, 21177, 29575, 30340, 12394, 31246, 37329, 23550, 31574, 12434, 35299, 35500>>,
     isbn |-> <<57, 55, 56, 45, 48, 45, 49, 50, 51, 52, 53, 54, 45, 52, 55, 45, 49, 50>>]

\* Book 3: book_server.rs:59-65, as Unicode scalar values
Book3 ==
    [title |-> <<28779, 26143, 12391, 12398, 22290, 33464, 20837, 38272>>,
     author |-> <<28779, 26143, 12398, 22290, 33464, 23478>>,
     year |-> 2250,
     description |-> <<28779, 26143, 12398, 29305, 27530, 12394, 29872, 22659, 12391, 26893, 29289, 12434, 32946, 12390, 12427, 26041, 27861, 12434, 35299, 35500, 12290>>,
     isbn |-> <<57, 55, 56, 45, 48, 45, 49, 50, 51, 52, 53, 54, 45, 52, 55, 45, 49, 51>>]

\* Book 4: book_server.rs:66-72, as Unicode scalar values
Book4 ==
    [title |-> <<65, 73, 12392, 24651, 24859, 12398, 24515, 29702, 23398>>,
     author |-> <<12525, 12508, 12483, 12488, 24515, 29702, 23398, 32773>>,
     year |-> 2200,
     description |-> <<65, 73, 12392, 12398, 24651, 24859, 38306, 20418, 12395, 12362, 12369, 12427, 24515, 29702, 23398, 30340, 12394, 32771, 23519, 12392, 23455, 36341, 30340, 12394, 12450, 12489, 12496, 12452, 12473, 12290>>,
     isbn |-> <<57, 55, 56, 45, 48, 45, 49, 50, 51, 52, 53, 54, 45, 52, 55, 45, 49, 52>>]

\* Book 5: book_server.rs:73-79, as Unicode scalar values
Book5 ==
    [title |-> <<12486, 12524, 12497, 12471, 12540, 12391, 12503, 12525, 12464, 12521, 12511, 12531, 12464>>,
     author |-> <<12469, 12452, 12461, 12483, 12463, 12456, 12531, 12472, 12491, 12450>>,
     year |-> 2300,
     description |-> <<12486, 12524, 12497, 12471, 12540, 33021, 21147, 12434, 20351, 29992, 12375, 12390, 12467, 12540, 12489, 12434, 26360, 12367, 26041, 27861, 12434, 35299, 35500, 12290>>,
     isbn |-> <<57, 55, 56, 45, 48, 45, 49, 50, 51, 52, 53, 54, 45, 52, 55, 45, 49, 53>>]

\* book_server.rs:111: "\u30ad\u30fc\u30ef\u30fc\u30c9 '"
NoResultsPrefix == <<12461, 12540, 12527, 12540, 12489, 32, 39>>

\* book_server.rs:111: "' \u306b\u4e00\u81f4\u3059\u308b\u672c\u304c\u898b\u3064\u304b\u308a\u307e\u305b\u3093\u3067\u3057\u305f\u3002"
NoResultsSuffix == <<39, 32, 12395, 19968, 33268, 12377, 12427, 26412, 12364, 35211, 12388, 12363, 12426, 12414, 12379, 12435, 12391, 12375, 12383, 12290>>

\* book_server.rs:113: "\u30ad\u30fc\u30ef\u30fc\u30c9 '"
HeaderPrefix == <<12461, 12540, 12527, 12540, 12489, 32, 39>>

\* book_server.rs:113: "' \u306e\u691c\u7d22\u7d50\u679c:\n\n"
HeaderSuffix == <<39, 32, 12398, 26908, 32034, 32080, 26524, 58, 10, 10>>

\* book_server.rs:116: '\u30bf\u30a4\u30c8\u30eb: '
TitleLabel == <<12479, 12452, 12488, 12523, 58, 32>>

\* book_server.rs:116: '\n\u8457\u8005: '
AuthorLabel == <<10, 33879, 32773, 58, 32>>

\* book_server.rs:116: '\n\u51fa\u7248\u5e74: '
YearLabel == <<10, 20986, 29256, 24180, 58, 32>>

\* book_server.rs:116: '\nISBN: '
IsbnLabel == <<10, 73, 83, 66, 78, 58, 32>>

\* book_server.rs:116: '\n\u8aac\u660e: '
DescriptionLabel == <<10, 35500, 26126, 58, 32>>

\* book_server.rs:116: '\n\n'
BlockEnd == <<10, 10>>

\* book_server.rs:138: '\u67b6\u7a7a\u306e\u672c\u306e\u30c7\u30fc\u30bf\u30d9\u30fc\u30b9\u3092\u691c\u7d22\u3059\u308b\u30b5\u30fc\u30d0\u30fc\u3067\u3059\u3002\u30bf\u30a4\u30c8\u30eb\u3001\u8457\u8005\u3001\u8aac\u660e\u6587\u3067\u691c\u7d22\u3067\u304d\u307e\u3059\u3002'
Instructions == <<26550, 31354, 12398, 26412, 12398, 12487, 12540, 12479, 12505, 12540, 12473, 12434, 26908, 32034, 12377, 12427, 12469, 12540, 12496, 12540, 12391, 12377, 12290, 12479, 12452, 12488, 12523, 12289, 33879, 32773, 12289, 35500, 26126, 25991, 12391, 26908, 32034, 12391, 12365, 12414, 12377, 12290>>

\* keyword ''
KwEmpty == <<>>

\* keyword '\u91cf\u5b50'
KwQuantum == <<37327, 23376>>

\* keyword 'xyz-nonexistent'
KwNonexistent == <<120, 121, 122, 45, 110, 111, 110, 101, 120, 105, 115, 116, 101, 110, 116>>

\* keyword 'DR.'
KwDrUpper == <<68, 82, 46>>

\* keyword 'dr.'
KwDrLower == <<100, 114, 46>>

\* keyword 'ai'
KwAiLower == <<97, 105>>

\* keyword '\u89e3\u8aac'
KwExplain == <<35299, 35500>>

\* keyword '978-0'
KwIsbn == <<57, 55, 56, 45, 48>>

\* keyword '\u039f\u03a3'
KwSigmaUpper == <<927, 931>>

\* keyword '\u03bf\u03c3'
KwSigmaLower == <<959, 963>>

\* keyword 'A\u0130'
KwDottedI == <<65, 304>>

\* prompt name 'greeting'
PromptGreeting == <<103, 114, 101, 101, 116, 105, 110, 103>>

\* uri 'file:///a'
UriFile == <<102, 105, 108, 101, 58, 47, 47, 47, 97>>

\* uri 'book://1'
UriBook == <<98, 111, 111, 107, 58, 47, 47, 49>>

\* uri ''
UriEmpty == <<>>

-----------------------------------------------------------------------------
(* Bounds of the model.                                                    *)

\* limits -MaxNegLimit .. MaxLimit are tried, besides i32::MIN and i32::MAX
MaxLimit == 6
MaxNegLimit == 1
\* concurrent callers of get_fake_books
NumCallers == 3

\* i32 (SearchQuery.limit, Book.year)
I32Max == 2147483647
I32Min == -2147483647 - 1
\* limit.unwrap_or(5)
DefaultLimit == 5
\* one limb of a usize
LimbBase == 65536

Keywords ==
    {KwEmpty, KwQuantum, KwNonexistent, KwDrUpper, KwDrLower, KwAiLower,
     KwExplain, KwIsbn, KwSigmaUpper, KwSigmaLower, KwDottedI}

Limits == (-MaxNegLimit .. MaxLimit) \cup {I32Min, I32Max}

Uris == {UriFile, UriBook, UriEmpty}

PromptNames == {PromptGreeting, UriEmpty}

Callers == 1 .. NumCallers

-----------------------------------------------------------------------------
(* str::to_lowercase and str::contains.                                    *)

\* The table behind char::to_lowercase for the scalar values above U+007F
\* (Unicode 17.0), as runs <<first, last, step, offset>>: every step-th
\* scalar value from first to last maps to itself plus offset. U+0130, the
\* one value with a longer mapping, is not in it.
LowercaseRuns ==
    <<<<192, 214, 1, 32>>, <<216, 222, 1, 32>>, <<256, 302, 2, 1>>, <<306, 310, 2, 1>>,
       <<313, 327, 2, 1>>, <<330, 374, 2, 1>>, <<376, 376, 1, -121>>, <<377, 381, 2, 1>>,
       <<385, 385, 1, 210>>, <<386, 388, 2, 1>>, <<390, 390, 1, 206>>, <<391, 391, 1, 1>>,
       <<393, 394, 1, 205>>, <<395, 395, 1, 1>>, <<398, 398, 1, 79>>, <<399, 399, 1, 202>>,
       <<400, 400, 1, 203>>, <<401, 401, 1, 1>>, <<403, 403, 1, 205>>, <<404, 404, 1, 207>>,
       <<406, 406, 1, 211>>, <<407, 407, 1, 209>>, <<408, 408, 1, 1>>, <<412, 412, 1, 211>>,
       <<413, 413, 1, 213>>, <<415, 415, 1, 214>>, <<416, 420, 2, 1>>, <<422, 422, 1, 218>>,
       <<423, 423, 1, 1>>, <<425, 425, 1, 218>>, <<428, 428, 1, 1>>, <<430, 430, 1, 218>>,
       <<431, 431, 1, 1>>, <<433, 434, 1, 217>>, <<435, 437, 2, 1>>, <<439, 439, 1, 219>>,
       <<440, 440, 1, 1>>, <<444, 444, 1, 1>>, <<452, 452, 1, 2>>, <<453, 453, 1, 1>>,
       <<455, 455, 1, 2>>, <<456, 456, 1, 1>>, <<458, 458, 1, 2>>, <<459, 475, 2, 1>>,
       <<478, 494, 2, 1>>, <<497, 497, 1, 2>>, <<498, 500, 2, 1>>, <<502, 502, 1, -97>>,
       <<503, 503, 1, -56>>, <<504, 542, 2, 1>>, <<544, 544, 1, -130>>, <<546, 562, 2, 1>>,
       <<570, 570, 1, 10795>>, <<571, 571, 1, 1>>, <<573, 573, 1, -163>>, <<574, 574, 1, 10792>>,
       <<577, 577, 1, 1>>, <<579, 579, 1, -195>>, <<580, 580, 1, 69>>, <<581, 581, 1, 71>>,
       <<582, 590, 2, 1>>, <<880, 882, 2, 1>>, <<886, 886, 1, 1>>, <<895, 895, 1, 116>>,
       <<902, 902, 1, 38>>, <<904, 906, 1, 37>>, <<908, 908, 1, 64>>, <<910, 911, 1, 63>>,
       <<913, 929, 1, 32>>, <<931, 939, 1, 32>>, <<975, 975, 1, 8>>, <<984, 1006, 2, 1>>,
       <<1012, 1012, 1, -60>>, <<1015, 1015, 1, 1>>, <<1017, 1017, 1, -7>>, <<1018, 1018, 1, 1>>,
       <<1021, 1023, 1, -130>>, <<1024, 1039, 1, 80>>, <<1040, 1071, 1, 32>>, <<1120, 1152, 2, 1>>,
       <<1162, 1214, 2, 1>>, <<1216, 1216, 1, 15>>, <<1217, 1229, 2, 1>>, <<1232, 1326, 2, 1>>,
       <<1329, 1366, 1, 48>>, <<4256, 4293, 1, 7264>>, <<4295, 4295, 1, 7264>>, <<4301, 4301, 1, 7264>>,
       <<5024, 5103, 1, 38864>>, <<5104, 5109, 1, 8>>, <<7305, 7305, 1, 1>>, <<7312, 7354, 1, -3008>>,
       <<7357, 7359, 1, -3008>>, <<7680, 7828, 2, 1>>, <<7838, 7838, 1, -7615>>, <<7840, 7934, 2, 1>>,
       <<7944, 7951, 1, -8>>, <<7960, 7965, 1, -8>>, <<7976, 7983, 1, -8>>, <<7992, 7999, 1, -8>>,
       <<8008, 8013, 1, -8>>, <<8025, 8031, 2, -8>>, <<8040, 8047, 1, -8>>, <<8072, 8079, 1, -8>>,
       <<8088, 8095, 1, -8>>, <<8104, 8111, 1, -8>>, <<8120, 8121, 1, -8>>, <<8122, 8123, 1, -74>>,
       <<8124, 8124, 1, -9>>, <<8136, 8139, 1, -86>>, <<8140, 8140, 1, -9>>, <<8152, 8153, 1, -8>>,
       <<8154, 8155, 1, -100>>, <<8168, 8169, 1, -8>>, <<8170, 8171, 1, -112>>, <<8172, 8172, 1, -7>>,
       <<8184, 8185, 1, -128>>, <<8186, 8187, 1, -126>>, <<8188, 8188, 1, -9>>, <<8486, 8486, 1, -7517>>,
       <<8490, 8490, 1, -8383>>, <<8491, 8491, 1, -8262>>, <<8498, 8498, 1, 28>>, <<8544, 8559, 1, 16>>,
       <<8579, 8579, 1, 1>>, <<9398, 9423, 1, 26>>, <<11264, 11311, 1, 48>>, <<11360, 11360, 1, 1>>,
       <<11362, 11362, 1, -10743>>, <<11363, 11363, 1, -3814>>, <<11364, 11364, 1, -10727>>, <<11367, 11371, 2, 1>>,
       <<11373, 11373, 1, -10780>>, <<11374, 11374, 1, -10749>>, <<11375, 11375, 1, -10783>>, <<11376, 11376, 1, -10782>>,
       <<11378, 11378, 1, 1>>, <<11381, 11381, 1, 1>>, <<11390, 11391, 1, -10815>>, <<11392, 11490, 2, 1>>,
       <<11499, 11501, 2, 1>>, <<11506, 11506, 1, 1>>, <<42560, 42604, 2, 1>>, <<42624, 42650, 2, 1>>,
       <<42786, 42798, 2, 1>>, <<42802, 42862, 2, 1>>, <<42873, 42875, 2, 1>>, <<42877, 42877, 1, -35332>>,
       <<42878, 42886, 2, 1>>, <<42891, 42891, 1, 1>>, <<42893, 42893, 1, -42280>>, <<42896, 42898, 2, 1>>,
       <<42902, 42920, 2, 1>>, <<42922, 42922, 1, -42308>>, <<42923, 42923, 1, -42319>>, <<42924, 42924, 1, -42315>>,
       <<42925, 42925, 1, -42305>>, <<42926, 42926, 1, -42308>>, <<42928, 42928, 1, -42258>>, <<42929, 42929, 1, -42282>>,
       <<42930, 42930, 1, -42261>>, <<42931, 42931, 1, 928>>, <<42932, 42946, 2, 1>>, <<42948, 42948, 1, -48>>,
       <<42949, 42949, 1, -42307>>, <<42950, 42950, 1, -35384>>, <<42951, 42953, 2, 1>>, <<42955, 42955, 1, -42343>>,
       <<42956, 42970, 2, 1>>, <<42972, 42972, 1, -42561>>, <<42997, 42997, 1, 1>>, <<65313, 65338, 1, 32>>,
       <<66560, 66599, 1, 40>>, <<66736, 66771, 1, 40>>, <<66928, 66938, 1, 39>>, <<66940, 66954, 1, 39>>,
       <<66956, 66962, 1, 39>>, <<66964, 66965, 1, 39>>, <<68736, 68786, 1, 64>>, <<68944, 68965, 1, 32>>,
       <<71840, 71871, 1, 32>>, <<93760, 93791, 1, 32>>, <<93856, 93880, 1, 27>>, <<125184, 125217, 1, 34>>>>

\* The property Cased (Unicode 17.0), as runs <<first, last>>
CasedRuns ==
    <<<<65, 90>>, <<97, 122>>, <<170, 170>>, <<181, 181>>, <<186, 186>>, <<192, 214>>,
       <<216, 246>>, <<248, 442>>, <<444, 447>>, <<452, 659>>, <<662, 696>>, <<704, 705>>,
       <<736, 740>>, <<837, 837>>, <<880, 883>>, <<886, 887>>, <<890, 893>>, <<895, 895>>,
       <<902, 902>>, <<904, 906>>, <<908, 908>>, <<910, 929>>, <<931, 1013>>, <<1015, 1153>>,
       <<1162, 1327>>, <<1329, 1366>>, <<1376, 1416>>, <<4256, 4293>>, <<4295, 4295>>, <<4301, 4301>>,
       <<4304, 4346>>, <<4348, 4351>>, <<5024, 5109>>, <<5112, 5117>>, <<7296, 7306>>, <<7312, 7354>>,
       <<7357, 7359>>, <<7424, 7615>>, <<7680, 7957>>, <<7960, 7965>>, <<7968, 8005>>, <<8008, 8013>>,
       <<8016, 8023>>, <<8025, 8025>>, <<8027, 8027>>, <<8029, 8029>>, <<8031, 8061>>, <<8064, 8116>>,
       <<8118, 8124>>, <<8126, 8126>>, <<8130, 8132>>, <<8134, 8140>>, <<8144, 8147>>, <<8150, 8155>>,
       <<8160, 8172>>, <<8178, 8180>>, <<8182, 8188>>, <<8305, 8305>>, <<8319, 8319>>, <<8336, 8348>>,
       <<8450, 8450>>, <<8455, 8455>>, <<8458, 8467>>, <<8469, 8469>>, <<8473, 8477>>, <<8484, 8484>>,
       <<8486, 8486>>, <<8488, 8488>>, <<8490, 8493>>, <<8495, 8500>>, <<8505, 8505>>, <<8508, 8511>>,
       <<8517, 8521>>, <<8526, 8526>>, <<8544, 8575>>, <<8579, 8580>>, <<9398, 9449>>, <<11264, 11492>>,
       <<11499, 11502>>, <<11506, 11507>>, <<11520, 11557>>, <<11559, 11559>>, <<11565, 11565>>, <<42560, 42605>>,
       <<42624, 42653>>, <<42786, 42887>>, <<42891, 42894>>, <<42896, 42972>>, <<42993, 42998>>, <<43000, 43002>>,
       <<43824, 43866>>, <<43868, 43881>>, <<43888, 43967>>, <<64256, 64262>>, <<64275, 64279>>, <<65313, 65338>>,
       <<65345, 65370>>, <<66560, 66639>>, <<66736, 66771>>, <<66776, 66811>>, <<66928, 66938>>, <<66940, 66954>>,
       <<66956, 66962>>, <<66964, 66965>>, <<66967, 66977>>, <<66979, 66993>>, <<66995, 67001>>, <<67003, 67004>>,
       <<67456, 67456>>, <<67459, 67461>>, <<67463, 67504>>, <<67506, 67514>>, <<68736, 68786>>, <<68800, 68850>>,
       <<68944, 68965>>, <<68976, 68997>>, <<71840, 71903>>, <<93760, 93823>>, <<93856, 93880>>, <<93883, 93907>>,
       <<119808, 119892>>, <<119894, 119964>>, <<119966, 119967>>, <<119970, 119970>>, <<119973, 119974>>, <<119977, 119980>>,
       <<119982, 119993>>, <<119995, 119995>>, <<119997, 120003>>, <<120005, 120069>>, <<120071, 120074>>, <<120077, 120084>>,
       <<120086, 120092>>, <<120094, 120121>>, <<120123, 120126>>, <<120128, 120132>>, <<120134, 120134>>, <<120138, 120144>>,
       <<120146, 120485>>, <<120488, 120512>>, <<120514, 120538>>, <<120540, 120570>>, <<120572, 120596>>, <<120598, 120628>>,
       <<120630, 120654>>, <<120656, 120686>>, <<120688, 120712>>, <<120714, 120744>>, <<120746, 120770>>, <<120772, 120779>>,
       <<122624, 122633>>, <<122635, 122654>>, <<122661, 122666>>, <<122928, 122989>>, <<125184, 125251>>, <<127280, 127305>>,
       <<127312, 127337>>, <<127344, 127369>>>>

\* The property Case_Ignorable (Unicode 17.0), as runs <<first, last>>
CaseIgnorableRuns ==
    <<<<39, 39>>, <<46, 46>>, <<58, 58>>, <<94, 94>>, <<96, 96>>, <<168, 168>>,
       <<173, 173>>, <<175, 175>>, <<180, 180>>, <<183, 184>>, <<688, 879>>, <<884, 885>>,
       <<890, 890>>, <<900, 901>>, <<903, 903>>, <<1155, 1161>>, <<1369, 1369>>, <<1375, 1375>>,
       <<1425, 1469>>, <<1471, 1471>>, <<1473, 1474>>, <<1476, 1477>>, <<1479, 1479>>, <<1524, 1524>>,
       <<1536, 1541>>, <<1552, 1562>>, <<1564, 1564>>, <<1600, 1600>>, <<1611, 1631>>, <<1648, 1648>>,
       <<1750, 1757>>, <<1759, 1768>>, <<1770, 1773>>, <<1807, 1807>>, <<1809, 1809>>, <<1840, 1866>>,
       <<1958, 1968>>, <<2027, 2037>>, <<2042, 2042>>, <<2045, 2045>>, <<2070, 2093>>, <<2137, 2139>>,
       <<2184, 2184>>, <<2192, 2193>>, <<2199, 2207>>, <<2249, 2306>>, <<2362, 2362>>, <<2364, 2364>>,
       <<2369, 2376>>, <<2381, 2381>>, <<2385, 2391>>, <<2402, 2403>>, <<2417, 2417>>, <<2433, 2433>>,
       <<2492, 2492>>, <<2497, 2500>>, <<2509, 2509>>, <<2530, 2531>>, <<2558, 2558>>, <<2561, 2562>>,
       <<2620, 2620>>, <<2625, 2626>>, <<2631, 2632>>, <<2635, 2637>>, <<2641, 2641>>, <<2672, 2673>>,
       <<2677, 2677>>, <<2689, 2690>>, <<2748, 2748>>, <<2753, 2757>>, <<2759, 2760>>, <<2765, 2765>>,
       <<2786, 2787>>, <<2810, 2815>>, <<2817, 2817>>, <<2876, 2876>>, <<2879, 2879>>, <<2881, 2884>>,
       <<2893, 2893>>, <<2901, 2902>>, <<2914, 2915>>, <<2946, 2946>>, <<3008, 3008>>, <<3021, 3021>>,
       <<3072, 3072>>, <<3076, 3076>>, <<3132, 3132>>, <<3134, 3136>>, <<3142, 3144>>, <<3146, 3149>>,
       <<3157, 3158>>, <<3170, 3171>>, <<3201, 3201>>, <<3260, 3260>>, <<3263, 3263>>, <<3270, 3270>>,
       <<3276, 3277>>, <<3298, 3299>>, <<3328, 3329>>, <<3387, 3388>>, <<3393, 3396>>, <<3405, 3405>>,
       <<3426, 3427>>, <<3457, 3457>>, <<3530, 3530>>, <<3538, 3540>>, <<3542, 3542>>, <<3633, 3633>>,
       <<3636, 3642>>, <<3654, 3662>>, <<3761, 3761>>, <<3764, 3772>>, <<3782, 3782>>, <<3784, 3790>>,
       <<3864, 3865>>, <<3893, 3893>>, <<3895, 3895>>, <<3897, 3897>>, <<3953, 3966>>, <<3968, 3972>>,
       <<3974, 3975>>, <<3981, 3991>>, <<3993, 4028>>, <<4038, 4038>>, <<4141, 4144>>, <<4146, 4151>>,
       <<4153, 4154>>, <<4157, 4158>>, <<4184, 4185>>, <<4190, 4192>>, <<4209, 4212>>, <<4226, 4226>>,
       <<4229, 4230>>, <<4237, 4237>>, <<4253, 4253>>, <<4348, 4348>>, <<4957, 4959>>, <<5906, 5908>>,
       <<5938, 5939>>, <<5970, 5971>>, <<6002, 6003>>, <<6068, 6069>>, <<6071, 6077>>, <<6086, 6086>>,
       <<6089, 6099>>, <<6103, 6103>>, <<6109, 6109>>, <<6155, 6159>>, <<6211, 6211>>, <<6277, 6278>>,
       <<6313, 6313>>, <<6432, 6434>>, <<6439, 6440>>, <<6450, 6450>>, <<6457, 6459>>, <<6679, 6680>>,
       <<6683, 6683>>, <<6742, 6742>>, <<6744, 6750>>, <<6752, 6752>>, <<6754, 6754>>, <<6757, 6764>>,
       <<6771, 6780>>, <<6783, 6783>>, <<6823, 6823>>, <<6832, 6877>>, <<6880, 6891>>, <<6912, 6915>>,
       <<6964, 6964>>, <<6966, 6970>>, <<6972, 6972>>, <<6978, 6978>>, <<7019, 7027>>, <<7040, 7041>>,
       <<7074, 7077>>, <<7080, 7081>>, <<7083, 7085>>, <<7142, 7142>>, <<7144, 7145>>, <<7149, 7149>>,
       <<7151, 7153>>, <<7212, 7219>>, <<7222, 7223>>, <<7288, 7293>>, <<7376, 7378>>, <<7380, 7392>>,
       <<7394, 7400>>, <<7405, 7405>>, <<7412, 7412>>, <<7416, 7417>>, <<7468, 7530>>, <<7544, 7544>>,
       <<7579, 7679>>, <<8125, 8125>>, <<8127, 8129>>, <<8141, 8143>>, <<8157, 8159>>, <<8173, 8175>>,
       <<8189, 8190>>, <<8203, 8207>>, <<8216, 8217>>, <<8228, 8228>>, <<8231, 8231>>, <<8234, 8238>>,
       <<8288, 8292>>, <<8294, 8303>>, <<8305, 8305>>, <<8319, 8319>>, <<8336, 8348>>, <<8400, 8432>>,
       <<11388, 11389>>, <<11503, 11505>>, <<11631, 11631>>, <<11647, 11647>>, <<11744, 11775>>, <<11823, 11823>>,
       <<12293, 12293>>, <<12330, 12333>>, <<12337, 12341>>, <<12347, 12347>>, <<12441, 12446>>, <<12540, 12542>>,
       <<40981, 40981>>, <<42232, 42237>>, <<42508, 42508>>, <<42607, 42610>>, <<42612, 42621>>, <<42623, 42623>>,
       <<42652, 42655>>, <<42736, 42737>>, <<42752, 42785>>, <<42864, 42864>>, <<42888, 42890>>, <<42993, 42996>>,
       <<43000, 43001>>, <<43010, 43010>>, <<43014, 43014>>, <<43019, 43019>>, <<43045, 43046>>, <<43052, 43052>>,
       <<43204, 43205>>, <<43232, 43249>>, <<43263, 43263>>, <<43302, 43309>>, <<43335, 43345>>, <<43392, 43394>>,
       <<43443, 43443>>, <<43446, 43449>>, <<43452, 43453>>, <<43471, 43471>>, <<43493, 43494>>, <<43561, 43566>>,
       <<43569, 43570>>, <<43573, 43574>>, <<43587, 43587>>, <<43596, 43596>>, <<43632, 43632>>, <<43644, 43644>>,
       <<43696, 43696>>, <<43698, 43700>>, <<43703, 43704>>, <<43710, 43711>>, <<43713, 43713>>, <<43741, 43741>>,
       <<43756, 43757>>, <<43763, 43764>>, <<43766, 43766>>, <<43867, 43871>>, <<43881, 43883>>, <<44005, 44005>>,
       <<44008, 44008>>, <<44013, 44013>>, <<64286, 64286>>, <<64434, 64450>>, <<65024, 65039>>, <<65043, 65043>>,
       <<65056, 65071>>, <<65106, 65106>>, <<65109, 65109>>, <<65279, 65279>>, <<65287, 65287>>, <<65294, 65294>>,
       <<65306, 65306>>, <<65342, 65342>>, <<65344, 65344>>, <<65392, 65392>>, <<65438, 65439>>, <<65507, 65507>>,
       <<65529, 65531>>, <<66045, 66045>>, <<66272, 66272>>, <<66422, 66426>>, <<67456, 67461>>, <<67463, 67504>>,
       <<67506, 67514>>, <<68097, 68099>>, <<68101, 68102>>, <<68108, 68111>>, <<68152, 68154>>, <<68159, 68159>>,
       <<68325, 68326>>, <<68900, 68903>>, <<68942, 68942>>, <<68969, 68973>>, <<68975, 68975>>, <<69291, 69292>>,
       <<69317, 69317>>, <<69370, 69375>>, <<69446, 69456>>, <<69506, 69509>>, <<69633, 69633>>, <<69688, 69702>>,
       <<69744, 69744>>, <<69747, 69748>>, <<69759, 69761>>, <<69811, 69814>>, <<69817, 69818>>, <<69821, 69821>>,
       <<69826, 69826>>, <<69837, 69837>>, <<69888, 69890>>, <<69927, 69931>>, <<69933, 69940>>, <<70003, 70003>>,
       <<70016, 70017>>, <<70070, 70078>>, <<70089, 70092>>, <<70095, 70095>>, <<70191, 70193>>, <<70196, 70196>>,
       <<70198, 70199>>, <<70206, 70206>>, <<70209, 70209>>, <<70367, 70367>>, <<70371, 70378>>, <<70400, 70401>>,
       <<70459, 70460>>, <<70464, 70464>>, <<70502, 70508>>, <<70512, 70516>>, <<70587, 70592>>, <<70606, 70606>>,
       <<70608, 70608>>, <<70610, 70610>>, <<70625, 70626>>, <<70712, 70719>>, <<70722, 70724>>, <<70726, 70726>>,
       <<70750, 70750>>, <<70835, 70840>>, <<70842, 70842>>, <<70847, 70848>>, <<70850, 70851>>, <<71090, 71093>>,
       <<71100, 71101>>, <<71103, 71104>>, <<71132, 71133>>, <<71219, 71226>>, <<71229, 71229>>, <<71231, 71232>>,
       <<71339, 71339>>, <<71341, 71341>>, <<71344, 71349>>, <<71351, 71351>>, <<71453, 71453>>, <<71455, 71455>>,
       <<71458, 71461>>, <<71463, 71467>>, <<71727, 71735>>, <<71737, 71738>>, <<71995, 71996>>, <<71998, 71998>>,
       <<72003, 72003>>, <<72148, 72151>>, <<72154, 72155>>, <<72160, 72160>>, <<72193, 72202>>, <<72243, 72248>>,
       <<72251, 72254>>, <<72263, 72263>>, <<72273, 72278>>, <<72281, 72283>>, <<72330, 72342>>, <<72344, 72345>>,
       <<72544, 72544>>, <<72546, 72548>>, <<72550, 72550>>, <<72752, 72758>>, <<72760, 72765>>, <<72767, 72767>>,
       <<72850, 72871>>, <<72874, 72880>>, <<72882, 72883>>, <<72885, 72886>>, <<73009, 73014>>, <<73018, 73018>>,
       <<73020, 73021>>, <<73023, 73029>>, <<73031, 73031>>, <<73104, 73105>>, <<73109, 73109>>, <<73111, 73111>>,
       <<73177, 73177>>, <<73459, 73460>>, <<73472, 73473>>, <<73526, 73530>>, <<73536, 73536>>, <<73538, 73538>>,
       <<73562, 73562>>, <<78896, 78912>>, <<78919, 78933>>, <<90398, 90409>>, <<90413, 90415>>, <<92912, 92916>>,
       <<92976, 92982>>, <<92992, 92995>>, <<93504, 93506>>, <<93547, 93548>>, <<94031, 94031>>, <<94095, 94111>>,
       <<94176, 94177>>, <<94179, 94180>>, <<94194, 94195>>, <<110576, 110579>>, <<110581, 110587>>, <<110589, 110590>>,
       <<113821, 113822>>, <<113824, 113827>>, <<118528, 118573>>, <<118576, 118598>>, <<119143, 119145>>, <<119155, 119170>>,
       <<119173, 119179>>, <<119210, 119213>>, <<119362, 119364>>, <<121344, 121398>>, <<121403, 121452>>, <<121461, 121461>>,
       <<121476, 121476>>, <<121499, 121503>>, <<121505, 121519>>, <<122880, 122886>>, <<122888, 122904>>, <<122907, 122913>>,
       <<122915, 122916>>, <<122918, 122922>>, <<122928, 122989>>, <<123023, 123023>>, <<123184, 123197>>, <<123566, 123566>>,
       <<123628, 123631>>, <<124139, 124143>>, <<124398, 124399>>, <<124643, 124643>>, <<124646, 124646>>, <<124654, 124655>>,
       <<124661, 124661>>, <<124671, 124671>>, <<125136, 125142>>, <<125252, 125259>>, <<127995, 127999>>, <<917505, 917505>>,
       <<917536, 917631>>, <<917760, 917999>>>>

RangeOf(r) == {r[1] + r[3] * k : k \in 0 .. ((r[2] - r[1]) \div r[3])}

\* the table, looked up by scalar value
LowercaseTable ==
    [c \in UNION {RangeOf(LowercaseRuns[n]) : n \in DOMAIN LowercaseRuns} |->
        LET n == CHOOSE n \in DOMAIN LowercaseRuns : c \in RangeOf(LowercaseRuns[n])
        IN  c + LowercaseRuns[n][4]]

InRuns(c, runs) == \E n \in DOMAIN runs : c >= runs[n][1] /\ c <= runs[n][2]

Cased(c) == InRuns(c, CasedRuns)

Case_Ignorable(c) == InRuns(c, CaseIgnorableRuns)

\* char::to_lowercase, as the scalar values it yields: ASCII by
\* to_ascii_lowercase, the rest by the table; a value the table does not
\* hold (kana, CJK, digits, punctuation, small letters) maps to itself
IsUpperChar(c) ==
    IF c < 128 THEN c >= 65 /\ c <= 90
    ELSE c = 304 \/ c \in DOMAIN LowercaseTable

ToLowerChar(c) ==
    IF ~IsUpperChar(c) THEN <<c>>
    ELSE IF c < 128 THEN <<c + 32>>
    ELSE IF c = 304 THEN <<105, 775>>
    ELSE <<LowercaseTable[c]>>

\* case_ignorable_then_cased over s[i-1], s[i-2], ..: the nearest scalar
\* value before i that is not Case_Ignorable exists and is Cased
CasedBefore(s, i) ==
    \E j \in 1 .. (i - 1) :
        /\ ~Case_Ignorable(s[j])
        /\ \A k \in (j + 1) .. (i - 1) : Case_Ignorable(s[k])
        /\ Cased(s[j])

\* case_ignorable_then_cased over s[i+1], s[i+2], ..
CasedAfter(s, i) ==
    \E j \in (i + 1) .. Len(s) :
        /\ ~Case_Ignorable(s[j])
        /\ \A k \in (i + 1) .. (j - 1) : Case_Ignorable(s[k])
        /\ Cased(s[j])

\* map_uppercase_sigma: U+03A3 at the end of a word becomes the final
\* sigma U+03C2, elsewhere U+03C3
map_uppercase_sigma(s, i) ==
    IF CasedBefore(s, i) /\ ~CasedAfter(s, i) THEN <<962>> ELSE <<963>>

\* the pieces joined in order (piece by piece only when some piece is
\* not a single scalar value)
RECURSIVE JoinFrom(_, _)
JoinFrom(pieces, i) ==
    IF i > Len(pieces) THEN <<>>
    ELSE pieces[i] \o JoinFrom(pieces, i + 1)

Join(pieces) ==
    IF \A i \in DOMAIN pieces : Len(pieces[i]) = 1
    THEN [i \in DOMAIN pieces |-> pieces[i][1]]
    ELSE JoinFrom(pieces, 1)

\* str::to_lowercase: the lowercase of every char, appended in turn
to_lowercase(s) ==
    Join([i \in 1 .. Len(s) |->
             IF s[i] = 931 THEN map_uppercase_sigma(s, i) ELSE ToLowerChar(s[i])])

\* haystack.contains(needle): needle occurs at some offset of haystack
contains(haystack, needle) ==
    \E i \in 0 .. (Len(haystack) - Len(needle)) :
        SubSeq(haystack, i + 1, i + Len(needle)) = needle

\* the filter closure, had it looked at the ISBN as well
Matches_WithIsbn(book, keyword) ==
    \/ contains(to_lowercase(book.title), to_lowercase(keyword))
    \/ contains(to_lowercase(book.author), to_lowercase(keyword))
    \/ contains(to_lowercase(book.description), to_lowercase(keyword))
    \/ contains(to_lowercase(book.isbn), to_lowercase(keyword))

\* the filter closure, had it lowercased the fields and not the keyword
Matches_KeywordAsIs(book, keyword) ==
    \/ contains(to_lowercase(book.title), keyword)
    \/ contains(to_lowercase(book.author), keyword)
    \/ contains(to_lowercase(book.description), keyword)

\* the closure passed to filter (book_server.rs:102-106)
Matches(book, keyword) ==
    \/ contains(to_lowercase(book.title), to_lowercase(keyword))
    \/ contains(to_lowercase(book.author), to_lowercase(keyword))
    \/ contains(to_lowercase(book.description), to_lowercase(keyword))

-----------------------------------------------------------------------------
(* limit.unwrap_or(5) as usize, and Iterator::take.                        *)

unwrap_or(opt, default) == IF opt = None THEN default ELSE opt[1]

\* i32 as usize: sign extension to 64 bits, as limbs <<l3, l2, l1, l0>>
AsUsize(n) ==
    IF n >= 0
    THEN <<0, 0, n \div LimbBase, n % LimbBase>>
    ELSE LET m == (n + I32Max) + 1      \* the low 31 bits of n
         IN  <<LimbBase - 1, LimbBase - 1,
               (LimbBase \div 2) + (m \div LimbBase), m % LimbBase>>

UsizeIsZero(u) == u = <<0, 0, 0, 0>>

\* u - 1 for u # 0
UsizeDec(u) ==
    IF u[4] > 0 THEN <<u[1], u[2], u[3], u[4] - 1>>
    ELSE IF u[3] > 0 THEN <<u[1], u[2], u[3] - 1, LimbBase - 1>>
    ELSE IF u[2] > 0 THEN <<u[1], u[2] - 1, LimbBase - 1, LimbBase - 1>>
    ELSE <<u[1] - 1, LimbBase - 1, LimbBase - 1, LimbBase - 1>>

\* filter and take, had take tested its counter after yielding an item
RECURSIVE FilterTake_Inclusive(_, _, _)
FilterTake_Inclusive(books, keyword, n) ==
    IF books = <<>> THEN <<>>
    ELSE IF contains(to_lowercase(Head(books).title), to_lowercase(keyword))
            \/ contains(to_lowercase(Head(books).author), to_lowercase(keyword))
            \/ contains(to_lowercase(Head(books).description), to_lowercase(keyword))
         THEN <<Head(books)>>
                  \o (IF UsizeIsZero(n) THEN <<>>
                      ELSE FilterTake_Inclusive(Tail(books), keyword, UsizeDec(n)))
         ELSE FilterTake_Inclusive(Tail(books), keyword, n)

\* books.iter().filter(..).take(n).collect(): Take::next stops once n is 0,
\* and otherwise counts down by one for every item the filter lets through
RECURSIVE FilterTake(_, _, _)
FilterTake(books, keyword, n) ==
    IF UsizeIsZero(n) \/ books = <<>> THEN <<>>
    ELSE IF Matches(Head(books), keyword)
         THEN <<Head(books)>> \o FilterTake(Tail(books), keyword, UsizeDec(n))
         ELSE FilterTake(Tail(books), keyword, n)

\* the `results` of search, had it walked the catalog from its end
SearchResults_Reversed(books, keyword, limit) ==
    FilterTake([i \in 1 .. Len(books) |-> books[Len(books) + 1 - i]], keyword,
               AsUsize(unwrap_or(limit, DefaultLimit)))

\* the `results` of search (book_server.rs:99-108)
SearchResults(books, keyword, limit) ==
    FilterTake(books, keyword, AsUsize(unwrap_or(limit, DefaultLimit)))

-----------------------------------------------------------------------------
(* Rendering (book_server.rs:110-123).                                     *)

\* Display for i32: decimal digits, '-' for a negative number
RECURSIVE NatToString(_)
NatToString(n) ==
    IF n < 10 THEN <<48 + n>>
    ELSE NatToString(n \div 10) \o <<48 + (n % 10)>>

I32ToString(n) ==
    IF n >= 0 THEN NatToString(n)
    ELSE IF n = I32Min THEN <<45>> \o NatToString(I32Max \div 10) \o <<56>>
    ELSE <<45>> \o NatToString(-n)

BookBlock(book) ==
    TitleLabel \o book.title \o AuthorLabel \o book.author
    \o YearLabel \o I32ToString(book.year) \o IsbnLabel \o book.isbn
    \o DescriptionLabel \o book.description \o BlockEnd

RECURSIVE PushBlocks(_, _)
PushBlocks(output, found) ==
    IF found = <<>> THEN output
    ELSE PushBlocks(output \o BookBlock(Head(found)), Tail(found))

\* the rendering, had it written the header for an empty match set too
Render_AlwaysHeader(keyword, found) ==
    PushBlocks(HeaderPrefix \o keyword \o HeaderSuffix, found)

Render(keyword, found) ==
    IF found = <<>>
    THEN NoResultsPrefix \o keyword \o NoResultsSuffix
    ELSE PushBlocks(HeaderPrefix \o keyword \o HeaderSuffix, found)

\* Content::text(output)
TextContent(output) == [type |-> "text", text |-> output]

\* CallToolResult::success(vec![..])
CallToolSuccess(content) ==
    [kind |-> "tool_result", is_error |-> FALSE, content |-> content]

\* McpError { code, message, data }
McpError(code, message, data) ==
    [kind |-> "error", code |-> code, message |-> message, data |-> data]

\* the value search returns for a decoded query
SearchResponse(books, keyword, limit) ==
    CallToolSuccess(<<TextContent(Render(keyword, SearchResults(books, keyword, limit)))>>)

-----------------------------------------------------------------------------
(* The catalog (book_server.rs:40-82).                                     *)

\* the vec! the get_or_init closure builds
FakeBooksVec == <<Book1, Book2, Book3, Book4, Book5>>

\* OnceLock::get: the value is read only when the Once is complete
IsInitialized(o) == o = "COMPLETE"

\* call_once, had it let every caller in that finds the Once not complete
MayRunClosure_Unguarded(o) == o # "COMPLETE"

\* Once::call_once: only the caller that finds the Once incomplete runs
\* the closure
MayRunClosure(o) == o = "INCOMPLETE"

\* get_fake_books() called by the session's dispatcher, start to end:
\* the slice it returns
GetFakeBooks(o, s) == IF IsInitialized(o) THEN s[1] ELSE FakeBooksVec

\* search, had it kept only the records it found in the catalog
CatalogAfterSearch_Truncated(books, keyword, limit) ==
    SearchResults(books, keyword, limit)

\* search borrows the catalog through iter(): the Vec holds the same
\* records afterwards
CatalogAfterSearch(books, keyword, limit) == books

-----------------------------------------------------------------------------
(* Decoding the arguments of a tool call into SearchQuery                  *)
(* (book_server.rs:29-35, derive(Deserialize); :98, #[tool(aggr)]).        *)

JAbsent == [t |-> "absent", s |-> <<>>, n |-> 0]    \* the key is not there
JNull == [t |-> "null", s |-> <<>>, n |-> 0]
JStr(s) == [t |-> "string", s |-> s, n |-> 0]
JInt(n) == [t |-> "int", s |-> <<>>, n |-> n]       \* an integer that fits i32
JBigInt == [t |-> "bigint", s |-> <<>>, n |-> 0]    \* an integer outside i32
JFloat == [t |-> "float", s |-> <<>>, n |-> 0]      \* a number with a fraction

\* the arguments tried: every keyword with every limit that decodes, a
\* missing or mistyped keyword, and a mistyped or oversized limit
GoodKeywords == {JStr(k) : k \in Keywords}
BadKeywords == {JAbsent, JNull, JInt(7)}
GoodLimits == {JAbsent, JNull} \cup {JInt(n) : n \in Limits}
BadLimits == {JStr(KwAiLower), JBigInt, JFloat}

RawArgs ==
    [keyword : GoodKeywords, limit : GoodLimits]
        \cup [keyword : BadKeywords, limit : {JAbsent, JInt(2)}]
        \cup [keyword : {JStr(KwAiLower)}, limit : BadLimits]

\* keyword: String is required; limit: Option<i32> may be missing or null.
\* The result is Option<SearchQuery>: None stands for serde's Err.
Decode(args) ==
    IF args.keyword.t # "string" THEN None
    ELSE IF args.limit.t \in {"absent", "null"}
         THEN Some([keyword |-> args.keyword.s, limit |-> None])
    ELSE IF args.limit.t = "int"
         THEN Some([keyword |-> args.keyword.s, limit |-> Some(args.limit.n)])
    ELSE None

\* the answer, had the decoding failure been reported as an internal error
DecodeError_InternalError ==
    McpError("internal_error", "failed to deserialize parameters", None)

\* What the caller gets when the arguments do not decode. The conversion of
\* serde's Err into a protocol error is done by the rmcp tool macro, which is
\* not part of book_server.rs; the error class is the one the specification
\* states for a decoding failure ("invalid parameters", sections 4.2 and 6).
DecodeError == McpError("invalid_params", "failed to deserialize parameters", None)

\* read_resource, had it left the detail out
ReadResourceError_NoDetail(uri) ==
    McpError("resource_not_found", "resource_not_found", None)

\* read_resource (book_server.rs:153-164)
ReadResourceError(uri) ==
    McpError("resource_not_found", "resource_not_found", Some([uri |-> uri]))

\* get_prompt (book_server.rs:177-183)
GetPromptError(name) == McpError("invalid_params", "prompt not found", None)

\* get_info (book_server.rs:129-140)
ServerInfo ==
    [kind |-> "server_info",
     protocol_version |-> "2024-11-05",
     capabilities |-> {"prompts", "resources", "tools"},
     server_info |-> "from_build_env",
     instructions |-> Some(Instructions)]

\* list_resources, list_prompts, list_resource_templates
EmptyList(what) == [kind |-> what, items |-> <<>>, next_cursor |-> None]

\* The session after a request was answered. The loop behind serve(stdio())
\* is rmcp's and not part of book_server.rs; that it goes on to the next
\* request after an Ok as after an Err is what the specification states
\* (section 6: no error path is fatal to the session).
SessionAfter(resp) == "serving"

-----------------------------------------------------------------------------
(* The session: one request at a time.                                     *)

Init ==
    /\ once = "INCOMPLETE"
    /\ slot = None
    /\ initCount = 0
    /\ session = "serving"
    /\ request = [kind |-> "none"]
    /\ response = [kind |-> "none"]
    /\ results = None
    /\ afterMalformed = FALSE
    /\ afterSearch = FALSE
    /\ pc = [c \in Callers |-> "idle"]
    /\ built = [c \in Callers |-> None]
    /\ view = [c \in Callers |-> None]

callerVars == <<pc, built, view>>

\* bookkeeping of what was answered before the request now dispatched
EarlierMalformed ==
    afterMalformed \/ (request.kind = "call_tool" /\ response.kind = "error")

EarlierSearch == afterSearch \/ results # None

\* a handler that touches no state of its own
Answer(req, resp) ==
    /\ session = "serving"
    /\ request' = req
    /\ response' = resp
    /\ session' = SessionAfter(resp)
    /\ results' = None
    /\ afterMalformed' = EarlierMalformed
    /\ afterSearch' = EarlierSearch
    /\ UNCHANGED <<once, slot, initCount, callerVars>>

\* tools/call search, arguments that do not decode
CallToolMalformed ==
    \E args \in RawArgs :
        /\ session = "serving"
        /\ Decode(args) = None
        /\ request' = [kind |-> "call_tool", args |-> args]
        /\ response' = DecodeError
        /\ session' = SessionAfter(DecodeError)
        /\ results' = None
        /\ afterMalformed' = EarlierMalformed
        /\ afterSearch' = EarlierSearch
        /\ UNCHANGED <<once, slot, initCount, callerVars>>

\* tools/call search, arguments that decode: BookSearch::search.
\* (Each local of the handler is bound once, by \E over a singleton.)
CallToolSearch ==
    \E args \in RawArgs :
        /\ session = "serving"
        /\ Decode(args) # None
        /\ \E q \in {Decode(args)[1]}, books \in {GetFakeBooks(once, slot)} :
           \E found \in {SearchResults(books, q.keyword, q.limit)} :
           \E resp \in {CallToolSuccess(<<TextContent(Render(q.keyword, found))>>)} :
               /\ request' = [kind |-> "call_tool", args |-> args]
               /\ initCount' = IF IsInitialized(once) THEN initCount ELSE initCount + 1
               /\ once' = "COMPLETE"
               /\ slot' = Some(CatalogAfterSearch(books, q.keyword, q.limit))
               /\ results' = Some(found)
               /\ response' = resp
               /\ session' = SessionAfter(resp)
        /\ afterMalformed' = EarlierMalformed
        /\ afterSearch' = EarlierSearch
        /\ UNCHANGED callerVars

GetInfo == Answer([kind |-> "get_info"], ServerInfo)

ListResources == Answer([kind |-> "list_resources"], EmptyList("resources"))

ReadResource ==
    \E uri \in Uris :
        Answer([kind |-> "read_resource", uri |-> uri], ReadResourceError(uri))

ListPrompts == Answer([kind |-> "list_prompts"], EmptyList("prompts"))

GetPrompt ==
    \E name \in PromptNames :
        Answer([kind |-> "get_prompt", name |-> name], GetPromptError(name))

ListResourceTemplates ==
    Answer([kind |-> "list_resource_templates"], EmptyList("resource_templates"))

\* the transport closes: service.waiting() returns and main ends
Shutdown ==
    /\ session = "serving"
    /\ session' = "closed"
    /\ UNCHANGED <<once, slot, initCount, request, response, results,
                   afterMalformed, afterSearch, callerVars>>

Next ==
    \/ CallToolMalformed
    \/ CallToolSearch
    \/ GetInfo
    \/ ListResources
    \/ ReadResource
    \/ ListPrompts
    \/ GetPrompt
    \/ ListResourceTemplates
    \/ Shutdown

Spec == Init /\ [][Next]_vars

-----------------------------------------------------------------------------
(* Concurrent first access: NumCallers tasks inside get_fake_books, each   *)
(* step one atomic access to FAKE_BOOKS (OnceLock::get_or_init,            *)
(* book_server.rs:42-82).                                                  *)

sessionVars ==
    <<session, request, response, results, afterMalformed, afterSearch>>

\* a task calls get_fake_books
Enter(c) ==
    /\ pc[c] = "idle"
    /\ pc' = [pc EXCEPT ![c] = "get"]
    /\ UNCHANGED <<once, slot, initCount, built, view, sessionVars>>

\* get_or_init, fast path: the value is there already
FastPath(c) ==
    /\ pc[c] = "get"
    /\ IF IsInitialized(once)
       THEN /\ view' = [view EXCEPT ![c] = slot]
            /\ pc' = [pc EXCEPT ![c] = "done"]
       ELSE /\ view' = view
            /\ pc' = [pc EXCEPT ![c] = "call_once"]
    /\ UNCHANGED <<once, slot, initCount, built, sessionVars>>

\* Once::call_once: take the Once if nobody has, otherwise wait for the
\* running initialiser to finish and use its value
CallOnce(c) ==
    /\ pc[c] = "call_once"
    /\ \/ /\ MayRunClosure(once)
          /\ once' = "RUNNING"
          /\ pc' = [pc EXCEPT ![c] = "closure"]
       \/ /\ ~MayRunClosure(once)
          /\ once = "COMPLETE"
          /\ once' = once
          /\ pc' = [pc EXCEPT ![c] = "get_unchecked"]
    /\ UNCHANGED <<slot, initCount, built, view, sessionVars>>

\* the closure: vec![Book {..}, ..]
RunClosure(c) ==
    /\ pc[c] = "closure"
    /\ built' = [built EXCEPT ![c] = Some(FakeBooksVec)]
    /\ initCount' = initCount + 1
    /\ pc' = [pc EXCEPT ![c] = "write"]
    /\ UNCHANGED <<once, slot, view, sessionVars>>

\* the value is moved into the cell
WriteSlot(c) ==
    /\ pc[c] = "write"
    /\ slot' = built[c]
    /\ built' = [built EXCEPT ![c] = None]
    /\ pc' = [pc EXCEPT ![c] = "complete"]
    /\ UNCHANGED <<once, initCount, view, sessionVars>>

\* the Once is marked complete and the waiters are woken
Complete(c) ==
    /\ pc[c] = "complete"
    /\ once' = "COMPLETE"
    /\ pc' = [pc EXCEPT ![c] = "get_unchecked"]
    /\ UNCHANGED <<slot, initCount, built, view, sessionVars>>

\* get_unchecked: the reference handed back to the caller
GetUnchecked(c) ==
    /\ pc[c] = "get_unchecked"
    /\ view' = [view EXCEPT ![c] = slot]
    /\ pc' = [pc EXCEPT ![c] = "done"]
    /\ UNCHANGED <<once, slot, initCount, built, sessionVars>>

\* the task is finished with the slice and may call again later
Return(c) ==
    /\ pc[c] = "done"
    /\ pc' = [pc EXCEPT ![c] = "idle"]
    /\ UNCHANGED <<once, slot, initCount, built, view, sessionVars>>

NextConc ==
    \E c \in Callers :
        \/ Enter(c)
        \/ FastPath(c)
        \/ CallOnce(c)
        \/ RunClosure(c)
        \/ WriteSlot(c)
        \/ Complete(c)
        \/ GetUnchecked(c)
        \/ Return(c)

SpecConc == Init /\ [][NextConc]_vars

-----------------------------------------------------------------------------
(* Vocabulary of the properties.                                           *)

\* the request last dispatched was a tool call that search answered
SearchAnswered == request.kind = "call_tool" /\ results # None

\* the keyword and the limit of that call, read off the raw arguments
ReqKeyword == request.args.keyword.s
LimitGiven == request.args.limit.t = "int"
ReqLimitValue == request.args.limit.n
ReqLimit == IF LimitGiven THEN Some(ReqLimitValue) ELSE None

\* the arguments of the call do not fit SearchQuery
ReqMalformed ==
    /\ request.kind = "call_tool"
    /\ \/ request.args.keyword.t # "string"
       \/ request.args.limit.t \notin {"absent", "null", "int"}

\* n occurs in h, position by position
IsSubstring(n, h) ==
    \E i \in 0 .. Len(h) :
        /\ i + Len(n) <= Len(h)
        /\ \A j \in 1 .. Len(n) : h[i + j] = n[j]

\* the predicate of the specification on one record
RecordMatches(book, keyword) ==
    \/ IsSubstring(to_lowercase(keyword), to_lowercase(book.title))
    \/ IsSubstring(to_lowercase(keyword), to_lowercase(book.author))
    \/ IsSubstring(to_lowercase(keyword), to_lowercase(book.description))

\* every matching record of the catalog literal, in its order
AllMatching(keyword) ==
    SelectSeq(FakeBooksVec, LAMBDA b : RecordMatches(b, keyword))

\* c and d are one letter: equal, or one the lowercase of the other
SameLetter(c, d) ==
    \/ c = d
    \/ ToLowerChar(c) = <<d>>
    \/ ToLowerChar(d) = <<c>>

\* a and b are the same text up to the case of their letters

DiffersOnlyInCase(a, b) ==
    /\ Len(a) = Len(b)
    /\ \A i \in 1 .. Len(a) : SameLetter(a[i], b[i])

IsPrefix(p, t) == Len(p) <= Len(t) /\ SubSeq(t, 1, Len(p)) = p

\* the text left after the blocks of `found`, in order, are cut off the
\* front of `text`; <<-1>> when some block is not there
RECURSIVE StripBlocks(_, _)
StripBlocks(text, found) ==
    IF found = <<>> THEN text
    ELSE IF IsPrefix(BookBlock(Head(found)), text)
         THEN StripBlocks(SubSeq(text, Len(BookBlock(Head(found))) + 1, Len(text)),
                          Tail(found))
         ELSE <<-1>>

-----------------------------------------------------------------------------
(* The properties.                                                         *)

\* C1: every record search returns has the lowercased keyword as a
\* substring of its lowercased title, author or description.
C1_ReturnedRecordsMatch ==
    SearchAnswered =>
        \A i \in 1 .. Len(results[1]) : RecordMatches(results[1][i], ReqKeyword)

\* "ai" against the title "AI..." of the fourth record
C1_Witness ==
    /\ SearchAnswered
    /\ ReqKeyword = KwAiLower
    /\ results[1] = <<Book4>>

\* C2 (as claimed): a search whose limit is zero or negative returns an
\* empty match set and completes as a success.
C2_NonPositiveLimitEmpty ==
    (SearchAnswered /\ LimitGiven /\ ReqLimitValue <= 0) =>
        /\ results[1] = <<>>
        /\ response.kind = "tool_result"
        /\ ~response.is_error

\* C3 (as claimed): the number of records returned is at most limit when
\* limit is given, at most 5 when it is absent, and at most the number of
\* catalog records.
C3_CountAtMostLimit ==
    SearchAnswered =>
        /\ LimitGiven => Len(results[1]) <= ReqLimitValue
        /\ ~LimitGiven => Len(results[1]) <= 5
        /\ Len(results[1]) <= Len(slot[1])

\* C3 (amended): the number of records returned is at most limit when a
\* limit >= 0 is given, at most 5 when it is absent, and in every case
\* (a negative limit too) at most the number of catalog records.
C3_CountAtMostNonNegativeLimit ==
    SearchAnswered =>
        /\ (LimitGiven /\ ReqLimitValue >= 0) => Len(results[1]) <= ReqLimitValue
        /\ ~LimitGiven => Len(results[1]) <= 5
        /\ Len(results[1]) <= Len(slot[1])

\* four records match, the limit 3 cuts them to three
C3_Witness ==
    /\ SearchAnswered
    /\ ReqKeyword = KwExplain
    /\ LimitGiven /\ ReqLimitValue = 3
    /\ Len(AllMatching(ReqKeyword)) = 4
    /\ Len(results[1]) = 3

\* C4: the match set is a prefix of the sequence of all matching catalog
\* records in catalog order; the empty keyword with limit 2 returns exactly
\* the first two catalog records.
C4_PrefixOfMatchesInCatalogOrder ==
    SearchAnswered =>
        /\ IsPrefix(results[1], AllMatching(ReqKeyword))
        /\ (ReqKeyword = KwEmpty /\ LimitGiven /\ ReqLimitValue = 2)
               => results[1] = <<Book1, Book2>>

C4_Witness ==
    /\ SearchAnswered
    /\ ReqKeyword = KwEmpty
    /\ LimitGiven /\ ReqLimitValue = 2
    /\ results[1] = <<Book1, Book2>>

\* C5: a keyword that differs from the one searched only in letter case
\* gives, with the same limit, the identical match set.
C5_CaseInsensitive ==
    SearchAnswered =>
        \A k \in Keywords :
            DiffersOnlyInCase(ReqKeyword, k)
                => SearchResults(slot[1], k, ReqLimit) = results[1]

\* "DR." finds the record whose author is "Dr. ..." as "dr." does
C5_Witness ==
    /\ SearchAnswered
    /\ ReqKeyword = KwDrUpper
    /\ DiffersOnlyInCase(ReqKeyword, KwDrLower)
    /\ results[1] = <<Book1>>

\* C6: whatever requests were answered before, the catalog, once
\* initialised, holds the records of its first initialisation in their
\* order, and the answer to a search is the one value its (keyword, limit)
\* has over that catalog, so that two searches with the same input get the
\* same answer.
C6_CatalogImmutableSearchIdempotent ==
    /\ IsInitialized(once) => (slot = Some(FakeBooksVec) /\ initCount = 1)
    /\ SearchAnswered
           => response = SearchResponse(FakeBooksVec, ReqKeyword, ReqLimit)

\* a search answered after an earlier search and a malformed call
C6_Witness ==
    /\ SearchAnswered
    /\ afterSearch
    /\ afterMalformed
    /\ results[1] # <<>>
    /\ slot = Some(FakeBooksVec)

\* C7: under every interleaving of concurrent first accesses the closure
\* runs at most once, and exactly once by the time the catalog is
\* initialised; a caller only ever observes the fully built catalog; and no
\* step taken after the initialisation runs the closure or changes the
\* catalog.
C7_InitialisedExactlyOnce ==
    /\ [](/\ initCount <= 1
          /\ IsInitialized(once) => (initCount = 1 /\ slot = Some(FakeBooksVec))
          /\ \A c \in Callers :
                /\ view[c] # None => view[c] = Some(FakeBooksVec)
                /\ pc[c] = "done" => view[c] = Some(FakeBooksVec))
    /\ [][IsInitialized(once)
              => (initCount' = initCount /\ slot' = slot /\ once' = once)]_vars

\* every caller went in before the catalog was there, one of them built it
C7_Witness ==
    /\ \A c \in Callers : pc[c] = "done" /\ view[c] = Some(FakeBooksVec)
    /\ initCount = 1

\* C8: a tool call whose arguments do not decode is answered with an
\* invalid-parameters error, leaves the catalog as it was and the session
\* serving; a search answered after it gets its normal answer. That such
\* arguments do not decode, do not reach search and leave the catalog alone
\* follows from book_server.rs; the error class and the session going on are
\* DecodeError and SessionAfter, taken from the specification.
C8_MalformedCallRecoverable ==
    /\ [](ReqMalformed =>
              /\ response.kind = "error"
              /\ response.code = "invalid_params")
    /\ [](afterMalformed /\ SearchAnswered =>
              response = SearchResponse(FakeBooksVec, ReqKeyword, ReqLimit))
    /\ [][ReqMalformed' /\ (request' # request \/ response' # response) =>
              /\ once' = once
              /\ slot' = slot
              /\ session' = "serving"]_vars

C8_Witness ==
    /\ afterMalformed
    /\ SearchAnswered
    /\ ReqKeyword = KwQuantum
    /\ results[1] = <<Book1>>
    /\ session = "serving"

\* C9: read_resource answers every URI with a not-found error whose detail
\* carries exactly that URI, and never with contents.
C9_ReadResourceNotFound ==
    request.kind = "read_resource" =>
        /\ response.kind = "error"
        /\ response.code = "resource_not_found"
        /\ response.data = Some([uri |-> request.uri])

C9_Witness ==
    /\ request.kind = "read_resource"
    /\ request.uri = UriFile
    /\ afterSearch
    /\ response.kind = "error"

\* C10: the answer of search is a success with exactly one text item; the
\* text is the no-results message naming the keyword exactly when the match
\* set is empty, and otherwise the header naming the keyword followed by
\* exactly one block per matched record, in the order of the match set.
C10_ResponseShape ==
    SearchAnswered =>
        /\ response.kind = "tool_result"
        /\ ~response.is_error
        /\ Len(response.content) = 1
        /\ response.content[1].type = "text"
        /\ LET text == response.content[1].text
               header == HeaderPrefix \o ReqKeyword \o HeaderSuffix
           IN  /\ (text = NoResultsPrefix \o ReqKeyword \o NoResultsSuffix)
                      <=> results[1] = <<>>
               /\ results[1] # <<>> =>
                      /\ IsPrefix(header, text)
                      /\ StripBlocks(SubSeq(text, Len(header) + 1, Len(text)),
                                     results[1]) = <<>>

\* two blocks after the header
C10_Witness ==
    /\ SearchAnswered
    /\ ReqKeyword = KwExplain
    /\ Len(results[1]) = 2
    /\ IsPrefix(HeaderPrefix \o ReqKeyword \o HeaderSuffix \o BookBlock(Book1)
                    \o BookBlock(Book2),
                response.content[1].text)

=============================================================================
